---- MODULE Spec2Model ----
(***************************************************************************)
(* A model of argmin's slog based observer                                 *)
(* (src/argmin/src/core/observers/slog_logger.rs): the SlogLogger, the     *)
(* two slog::KV serialisers (KV and LogState), the Observe implementation  *)
(* and the asynchronous drain the constructors build around the backend.   *)
(***************************************************************************)
EXTENDS Integers, Sequences, FiniteSets, TLC

VARIABLES
    ctor,       \* which constructor built the logger
    strategy,   \* OverflowStrategy handed to slog_async: "Block" | "Drop"
    backend,    \* "term" | "file"
    log_data,   \* per handle: the Vec<StateData> of that SlogLogger value
    pc,         \* per handle: "absent" | "idle" | "blocked" | "gone" | "panicked"
    pending,    \* per handle: <<>> or <<m>>, the record of a suspended send
    queue,      \* the bounded channel between the callers and the worker
    worker,     \* the background thread: "running" | "exited" | "panicked"
    phase,      \* the drain: "open" | "finishing" | "released"
    out,        \* the backend target: the terminal stream or the file content
    cursor,     \* offset of the next write into out
    state,      \* the State last handed to observe_iter
    written,    \* history: records the worker wrote during this run
    admitted,   \* history: ids in the order they entered the queue
    dropped,    \* history: ids discarded on overflow
    failed,     \* history: ids whose write failed
    ret,        \* history: per call id, how the call ended
    nextId,     \* history: id of the next call
    lastData,   \* history: per handle, <<>> or <<argument of the last data()>>
    run,        \* number of constructions on the path so far
    prev,       \* history: content of the target when this run opened it
    truncate,   \* the truncate flag of this run's constructor
    suspended,  \* history: ids whose send was suspended on a full channel
    left        \* history: records in the channel when the teardown began

vars == <<ctor, strategy, backend, log_data, pc, pending, queue, worker, phase,
          out, cursor, state, written, admitted, dropped, failed, ret, nextId,
          lastData, run, prev, truncate, suspended, left>>

-----------------------------------------------------------------------------
(* Bounds of the model *)

\* capacity of the channel (slog_async's default is larger; the code never sets it)
ChanSize == 2
\* observe_init / observe_iter calls made on one logger
MaxCalls == 3
\* longest enumerated field selection
MaxSelLen == 2
\* constructions on one path
MaxRuns == 2

Handles == {1, 2}
CallIds == 1..MaxCalls

-----------------------------------------------------------------------------
(* StateData and the values a State hands out *)

StateDataAll ==
    <<"StateData::BestCost", "StateData::BestParam", "StateData::Cost",
      "StateData::FunctionCounts", "StateData::IsBest", "StateData::Iter",
      "StateData::LastBestIter", "StateData::MaxIters", "StateData::Param",
      "StateData::TargetCost", "StateData::TerminationReason",
      "StateData::TerminationStatus", "StateData::Time">>

\* StateData's Display: the name the spec gives each tag
DisplayName(data) ==
    CASE data = "StateData::BestCost" -> "BestCost"
      [] data = "StateData::BestParam" -> "BestParam"
      [] data = "StateData::Cost" -> "Cost"
      [] data = "StateData::FunctionCounts" -> "FunctionCounts"
      [] data = "StateData::IsBest" -> "IsBest"
      [] data = "StateData::Iter" -> "Iter"
      [] data = "StateData::LastBestIter" -> "LastBestIter"
      [] data = "StateData::MaxIters" -> "MaxIters"
      [] data = "StateData::Param" -> "Param"
      [] data = "StateData::TargetCost" -> "TargetCost"
      [] data = "StateData::TerminationReason" -> "TerminationReason"
      [] data = "StateData::TerminationStatus" -> "TerminationStatus"
      [] data = "StateData::Time" -> "Time"

Digit == <<"0", "1", "2", "3", "4", "5", "6", "7", "8", "9">>

RECURSIVE U64ToString(_)
U64ToString(n) ==
    IF n < 10 THEN Digit[n + 1]
    ELSE U64ToString(n \div 10) \o Digit[(n % 10) + 1]

\* the fraction of a float held in hundredths, without trailing zeros
Frac2(c) ==
    IF c % 10 = 0 THEN Digit[(c \div 10) + 1]
    ELSE Digit[(c \div 10) + 1] \o Digit[(c % 10) + 1]

\* f64 values are held as [inf, h]: infinity, or h hundredths
F64(h) == [inf |-> FALSE, h |-> h]
F64Inf == [inf |-> TRUE, h |-> 0]

\* f64's Display, used by to_string(): 1.0 is "1", 1.23 is "1.23"
F64ToString(x) ==
    IF x.inf THEN "inf"
    ELSE IF x.h % 100 = 0 THEN U64ToString(x.h \div 100)
    ELSE U64ToString(x.h \div 100) \o "." \o Frac2(x.h % 100)

\* f64's Debug, used by {:?} on a parameter vector: 1.0 is "1.0"
F64Debug(x) ==
    IF x.inf THEN "inf"
    ELSE IF x.h % 100 = 0 THEN U64ToString(x.h \div 100) \o ".0"
    ELSE U64ToString(x.h \div 100) \o "." \o Frac2(x.h % 100)

RECURSIVE JoinDebug(_)
JoinDebug(p) ==
    IF p = <<>> THEN ""
    ELSE IF Len(p) = 1 THEN F64Debug(p[1])
    ELSE F64Debug(p[1]) \o ", " \o JoinDebug(Tail(p))

\* format!("{:?}", p) of a parameter vector
ParamDebug(p) == "[" \o JoinDebug(p) \o "]"

\* format!("{:?}", t) of a Duration held in milliseconds
DurationDebug(ms) ==
    IF ms < 1000 THEN U64ToString(ms) \o "ms"
    ELSE IF ms % 1000 = 0 THEN U64ToString(ms \div 1000) \o "s"
    ELSE U64ToString(ms \div 1000) \o "." \o Digit[((ms % 1000) \div 100) + 1] \o "s"

\* TerminationReason::text()
ReasonText(r) ==
    CASE r = "MaxItersReached" -> "Maximum number of iterations reached"
      [] r = "TargetCostReached" -> "Target cost value reached"

\* TerminationStatus's Display
StatusToString(s) ==
    CASE s = "NotTerminated" -> "Running"
      [] s = "Terminated" -> "Terminated"

None == [some |-> FALSE, v |-> <<>>]
Some(v) == [some |-> TRUE, v |-> <<v>>]

-----------------------------------------------------------------------------
(* slog::Serializer: what a KV emits *)

emit_str(key, val) == [key |-> key, ty |-> "str", s |-> val, n |-> 0]
emit_u64(key, val) == [key |-> key, ty |-> "u64", s |-> "", n |-> val]
emit_bool(key, val) == [key |-> key, ty |-> "bool", s |-> "", n |-> IF val THEN 1 ELSE 0]


\* impl slog::KV for KV: every pair of kv.kv, in order, as a string
RECURSIVE KV_serialize(_)
KV_serialize(kv) ==
    IF kv = <<>> THEN <<>>
    ELSE <<emit_str(kv[1].k, F64ToString(kv[1].v))>> \o KV_serialize(Tail(kv))

\* an arm that emits every count under the tag's own key
FunctionCountsTagged(counts) ==
    [j \in 1..Len(counts) |-> emit_u64("FunctionCounts", counts[j].count)]

\* the StateData::FunctionCounts arm: one emit_u64 per pair state.get_func_counts()
\* iterates over, keyed by the pair's own name
RECURSIVE FunctionCountsEntries(_)
FunctionCountsEntries(counts) ==
    IF counts = <<>> THEN <<>>
    ELSE <<emit_u64(counts[1].name, counts[1].count)>>
             \o FunctionCountsEntries(Tail(counts))

\* one turn of the loop of LogState::serialize: the match on data
SerializeData(st, data) ==
    LET key == DisplayName(data) IN
    CASE data = "StateData::BestCost" ->
            <<emit_str(key, F64ToString(st.best_cost))>>
      [] data = "StateData::BestParam" ->
            <<emit_str(key, IF st.best_param.some THEN ParamDebug(st.best_param.v[1]) ELSE "None")>>
      [] data = "StateData::Cost" ->
            <<emit_str(key, F64ToString(st.cost))>>
      [] data = "StateData::FunctionCounts" ->
            FunctionCountsEntries(st.func_counts)
      [] data = "StateData::IsBest" -> <<emit_bool(key, st.is_best)>>
      [] data = "StateData::Iter" -> <<emit_u64(key, st.iter)>>
      [] data = "StateData::LastBestIter" -> <<emit_u64(key, st.last_best_iter)>>
      [] data = "StateData::MaxIters" -> <<emit_u64(key, st.max_iters)>>
      [] data = "StateData::Param" ->
            <<emit_str(key, IF st.param.some THEN ParamDebug(st.param.v[1]) ELSE "None")>>
      [] data = "StateData::TargetCost" ->
            <<emit_str(key, F64ToString(st.target_cost))>>
      [] data = "StateData::TerminationReason" ->
            <<emit_str(key, IF st.termination_reason.some THEN ReasonText(st.termination_reason.v[1]) ELSE "None")>>
      [] data = "StateData::TerminationStatus" ->
            <<emit_str(key, StatusToString(st.termination_status))>>
      [] data = "StateData::Time" ->
            <<emit_str(key, IF st.time.some THEN DurationDebug(st.time.v[1]) ELSE "None")>>

\* a serialiser that skips a tag it has already seen
RECURSIVE LogState_serialize_dedup(_, _)
LogState_serialize_dedup(st, sel) ==
    IF sel = <<>> THEN <<>>
    ELSE LET front == SubSeq(sel, 1, Len(sel) - 1)
             last == sel[Len(sel)]
         IN  IF \E i \in DOMAIN front : front[i] = last
             THEN LogState_serialize_dedup(st, front)
             ELSE LogState_serialize_dedup(st, front) \o SerializeData(st, last)

\* impl slog::KV for LogState: for data in self.1 { match data ... }
RECURSIVE LogState_serialize(_, _)
LogState_serialize(st, sel) ==
    IF sel = <<>> THEN <<>>
    ELSE SerializeData(st, Head(sel)) \o LogState_serialize(st, Tail(sel))

\* info!(logger, msg; first, second): the record's message and its
\* key-value entries, the KV arguments in the order they are written
info(msg, first, second) == [msg |-> msg, entries |-> first \o second]

-----------------------------------------------------------------------------
(* Inputs *)

Count(name, count) == [name |-> name, count |-> count]
Pair(k, v) == [k |-> k, v |-> v]

\* a State before the first iteration
StInit ==
    [best_cost |-> F64Inf, best_param |-> None, cost |-> F64Inf,
     func_counts |-> <<>>, is_best |-> FALSE, iter |-> 0, last_best_iter |-> 0,
     max_iters |-> 10, param |-> None, target_cost |-> F64(0),
     termination_reason |-> None, termination_status |-> "NotTerminated",
     time |-> None]

\* a State in the middle of a run
StMid ==
    [best_cost |-> F64(123), best_param |-> Some(<<F64(100), F64(250)>>),
     cost |-> F64(123), func_counts |-> <<Count("cost_count", 3), Count("gradient_count", 1)>>,
     is_best |-> TRUE, iter |-> 5, last_best_iter |-> 5, max_iters |-> 10,
     param |-> Some(<<F64(100), F64(250)>>), target_cost |-> F64(0),
     termination_reason |-> None, termination_status |-> "NotTerminated",
     time |-> Some(250)]

\* a terminated State, its counts iterated in the other order
StEnd ==
    [best_cost |-> F64(50), best_param |-> Some(<<F64(300)>>),
     cost |-> F64(200), func_counts |-> <<Count("gradient_count", 1), Count("cost_count", 3)>>,
     is_best |-> FALSE, iter |-> 7, last_best_iter |-> 6, max_iters |-> 7,
     param |-> Some(<<F64(125)>>), target_cost |-> F64(50),
     termination_reason |-> Some("MaxItersReached"),
     termination_status |-> "Terminated", time |-> Some(1500)]

\* a State whose problem counts a function under the name of a tag
StClash ==
    [StMid EXCEPT !.func_counts = <<Count("FunctionCounts", 2), Count("cost_count", 3)>>,
                  !.iter = 12]

States == {StInit, StMid, StEnd, StClash}

KVEmpty == <<>>
KVOne == <<Pair("gamma", F64(50))>>
KVTwo == <<Pair("gamma", F64(50)), Pair("Iter", F64(700))>>
KVs == {KVEmpty, KVOne, KVTwo}

Messages == {"Nelder-Mead method"}

\* all field selections of at most n tags drawn from a set of tags
RECURSIVE SeqsUpTo(_, _)
SeqsUpTo(S, n) ==
    IF n = 0 THEN {<<>>}
    ELSE LET shorter == SeqsUpTo(S, n - 1)
         IN  shorter \cup {Append(q, x) : q \in shorter, x \in S}

DefaultLogData ==
    <<"StateData::FunctionCounts", "StateData::BestCost", "StateData::Cost",
      "StateData::Iter">>

Selections ==
    SeqsUpTo({"StateData::FunctionCounts", "StateData::Iter", "StateData::Cost",
              "StateData::Param", "StateData::IsBest", "StateData::Time"}, MaxSelLen)
      \cup {StateDataAll, DefaultLogData}

-----------------------------------------------------------------------------
(* Construction *)

Ctors == {"term", "term_noblock", "file", "file_noblock"}

\* term_internal(overflow_strategy)
term_internal(overflow_strategy) ==
    [strategy |-> overflow_strategy, backend |-> "term", log_data |-> DefaultLogData]

\* file_internal(file, overflow_strategy, truncate)
file_internal(overflow_strategy) ==
    [strategy |-> overflow_strategy, backend |-> "file", log_data |-> DefaultLogData]

term_drops == term_internal("Drop")
term == term_internal("Block")

term_noblock_blocks == term_internal("Block")
term_noblock == term_internal("Drop")

file == file_internal("Block")
file_noblock == file_internal("Drop")

Built(c) ==
    CASE c = "term" -> term
      [] c = "term_noblock" -> term_noblock
      [] c = "file" -> file
      [] c = "file_noblock" -> file_noblock

\* OpenOptions::new().create(true).write(true).truncate(truncate).open(file):
\* the content is cleared iff truncate; the file is not opened in append
\* mode, so the first write goes to offset 0
OpenContent(content, trunc) == IF trunc THEN <<>> ELSE content
OpenOffset(content, trunc) == 0

\* the terminal is a stream: what is written follows what was written
TermOffset(content) == Len(content)

\* The state right after one of the four constructors returned its logger, on
\* a path that does not exist yet.
InitWith(cs, truncs) ==
    \E c \in cs, trunc \in truncs :
        /\ ctor = c
        /\ strategy = Built(c).strategy
        /\ backend = Built(c).backend
        /\ log_data = [h \in Handles |-> IF h = 1 THEN Built(c).log_data ELSE <<>>]
        /\ pc = [h \in Handles |-> IF h = 1 THEN "idle" ELSE "absent"]
        /\ pending = [h \in Handles |-> <<>>]
        /\ queue = <<>>
        /\ worker = "running"
        /\ phase = "open"
        /\ truncate = (Built(c).backend = "file" /\ trunc)
        /\ out = <<>>
        /\ cursor = 0
        /\ prev = <<>>
        /\ run = 1
        /\ state = StInit
        /\ written = <<>>
        /\ admitted = <<>>
        /\ dropped = {}
        /\ failed = {}
        /\ ret = [i \in CallIds |-> "none"]
        /\ nextId = 1
        /\ lastData = [h \in Handles |-> <<>>]
        /\ suspended = {}
        /\ left = 0

\* One of the four constructors called again on the same target, after the
\* previous logger is gone. A file constructor whose open fails returns the
\* error and builds no logger.
Construct(c, trunc, openable) ==
    /\ phase = "released"
    /\ run < MaxRuns
    /\ IF Built(c).backend = "file" /\ ~openable
       THEN UNCHANGED vars
       ELSE /\ ctor' = c
            /\ strategy' = Built(c).strategy
            /\ backend' = Built(c).backend
            /\ log_data' = [h \in Handles |-> IF h = 1 THEN Built(c).log_data ELSE <<>>]
            /\ pc' = [h \in Handles |-> IF h = 1 THEN "idle" ELSE "absent"]
            /\ pending' = [h \in Handles |-> <<>>]
            /\ queue' = <<>>
            /\ worker' = "running"
            /\ phase' = "open"
            /\ truncate' = (Built(c).backend = "file" /\ trunc)
            /\ out' = IF Built(c).backend = "file" THEN OpenContent(out, trunc) ELSE out
            /\ cursor' = IF Built(c).backend = "file" THEN OpenOffset(out, trunc)
                         ELSE TermOffset(out)
            /\ prev' = out
            /\ run' = run + 1
            /\ written' = <<>>
            /\ admitted' = <<>>
            /\ dropped' = {}
            /\ failed' = {}
            /\ ret' = [i \in CallIds |-> "none"]
            /\ nextId' = 1
            /\ lastData' = [h \in Handles |-> <<>>]
            /\ suspended' = {}
            /\ left' = 0
            /\ UNCHANGED state

-----------------------------------------------------------------------------
(* The SlogLogger value: data() and Clone *)

\* a data() that extends the selection instead of replacing it
data_extends(h, sel) ==
    /\ pc[h] = "idle"
    /\ log_data' = [log_data EXCEPT ![h] = log_data[h] \o sel]
    /\ lastData' = [lastData EXCEPT ![h] = <<sel>>]
    /\ UNCHANGED <<ctor, strategy, backend, pc, pending, queue, worker, phase, out,
                   cursor, state, written, admitted, dropped, failed, ret, nextId,
                   run, prev, truncate, suspended, left>>

\* pub fn data(&mut self, log_data): self.log_data = log_data
data(h, sel) ==
    /\ pc[h] = "idle"
    /\ log_data' = [log_data EXCEPT ![h] = sel]
    /\ lastData' = [lastData EXCEPT ![h] = <<sel>>]
    /\ UNCHANGED <<ctor, strategy, backend, pc, pending, queue, worker, phase, out,
                   cursor, state, written, admitted, dropped, failed, ret, nextId,
                   run, prev, truncate, suspended, left>>

\* #[derive(Clone)]: the new value copies log_data and shares the logger
Clone(h, g) ==
    /\ pc[h] = "idle"
    /\ pc[g] = "absent"
    /\ pc' = [pc EXCEPT ![g] = "idle"]
    /\ log_data' = [log_data EXCEPT ![g] = log_data[h]]
    /\ lastData' = [lastData EXCEPT ![g] = lastData[h]]
    /\ UNCHANGED <<ctor, strategy, backend, pending, queue, worker, phase, out,
                   cursor, state, written, admitted, dropped, failed, ret, nextId,
                   run, prev, truncate, suspended, left>>

-----------------------------------------------------------------------------
(* The asynchronous drain: the bounded channel and its worker *)

Live(p) == {h \in Handles : p[h] \in {"idle", "blocked"}}

\* what a call of observe_init / observe_iter hands back once info! is done
ObserveErr == "Err"
ObserveResult == "Ok"

\* the channel takes the record at its tail
EnqueueFront(q, m) == <<m>> \o q
Enqueue(q, m) == Append(q, m)

\* Async::log for the record m of handle h. With room in the channel the
\* record is admitted. Without room, Block suspends the caller and Drop
\* discards the record and reports nothing. With the worker gone the send
\* fails and the fused drain panics in the caller.
Push(h, m) ==
    IF worker = "panicked"
    THEN /\ pc' = [pc EXCEPT ![h] = "panicked"]
         /\ ret' = [ret EXCEPT ![m.id] = "panic"]
         /\ phase' = IF Live([pc EXCEPT ![h] = "panicked"]) = {} THEN "finishing" ELSE phase
         /\ left' = IF Live([pc EXCEPT ![h] = "panicked"]) = {} THEN Len(queue) ELSE left
         /\ UNCHANGED <<queue, pending, admitted, dropped, suspended>>
    ELSE IF Len(queue) < ChanSize
    THEN /\ queue' = Enqueue(queue, m)
         /\ admitted' = Append(admitted, m.id)
         /\ ret' = [ret EXCEPT ![m.id] = ObserveResult]
         /\ UNCHANGED <<pc, pending, dropped, phase, suspended, left>>
    ELSE IF strategy = "Block"
    THEN /\ pc' = [pc EXCEPT ![h] = "blocked"]
         /\ pending' = [pending EXCEPT ![h] = <<m>>]
         /\ ret' = [ret EXCEPT ![m.id] = "pending"]
         /\ suspended' = suspended \cup {m.id}
         /\ UNCHANGED <<queue, admitted, dropped, phase, left>>
    ELSE /\ dropped' = dropped \cup {m.id}
         /\ ret' = [ret EXCEPT ![m.id] = ObserveResult]
         /\ UNCHANGED <<queue, pc, pending, admitted, phase, suspended, left>>

\* the record a call builds: the entries are serialised inside the call, from
\* the borrowed state and log_data; sel, st and aux keep the call's arguments
Record(h, kind, rec, sel, st, aux) ==
    [id |-> nextId, h |-> h, kind |-> kind, msg |-> rec.msg, entries |-> rec.entries,
     sel |-> sel, st |-> st, aux |-> aux]

\* fn observe_init(&mut self, msg, kv): info!(self.logger, "{}", msg; kv); Ok(())
observe_init(h, msg, kv) ==
    /\ pc[h] = "idle"
    /\ phase = "open"
    /\ nextId <= MaxCalls
    /\ Push(h, Record(h, "init", info(msg, <<>>, KV_serialize(kv)), <<>>, state, kv))
    /\ nextId' = nextId + 1
    /\ UNCHANGED <<ctor, strategy, backend, log_data, worker, out, cursor,
                   state, written, failed, lastData, run, prev, truncate>>

\* fn observe_iter(&mut self, state, kv):
\* info!(self.logger, ""; LogState(state, &self.log_data), kv); Ok(())
observe_iter(h, st, kv) ==
    /\ pc[h] = "idle"
    /\ phase = "open"
    /\ nextId <= MaxCalls
    /\ Push(h, Record(h, "iter",
                      info("", LogState_serialize(st, log_data[h]), KV_serialize(kv)),
                      log_data[h], st, kv))
    /\ nextId' = nextId + 1
    /\ state' = st
    /\ UNCHANGED <<ctor, strategy, backend, log_data, worker, out, cursor,
                   written, failed, lastData, run, prev, truncate>>

\* a suspended send goes through once the channel has room
Unblock(h) ==
    /\ pc[h] = "blocked"
    /\ worker = "running"
    /\ Len(queue) < ChanSize
    /\ queue' = Enqueue(queue, pending[h][1])
    /\ admitted' = Append(admitted, pending[h][1].id)
    /\ ret' = [ret EXCEPT ![pending[h][1].id] = ObserveResult]
    /\ pc' = [pc EXCEPT ![h] = "idle"]
    /\ pending' = [pending EXCEPT ![h] = <<>>]
    /\ UNCHANGED <<ctor, strategy, backend, log_data, worker, phase, out, cursor,
                   state, written, dropped, failed, nextId, lastData, run, prev,
                   truncate, suspended, left>>

\* a worker that serialises the record when it writes it, from the selection
\* and the state of that moment
DeliveredLate(m, cur_sel, cur_state) ==
    IF m.kind = "iter"
    THEN LogState_serialize(cur_state, cur_sel) \o KV_serialize(m.aux)
    ELSE m.entries

\* the entries the worker writes for a queued record: the ones the call
\* serialised (LogState only borrows state and log_data for the call)
Delivered(m, cur_sel, cur_state) == m.entries

NewLine == [key |-> "", ty |-> "nl", s |-> "", n |-> 0]

\* the backend's rendering of one record: its message, its entries, a line end
Line(m, entries) == <<emit_str("msg", m.msg)>> \o entries \o <<NewLine>>

\* a write of line at offset at: it replaces what is there and extends the content
WriteAt(content, at, line) ==
    LET end == at + Len(line)
        len == IF Len(content) > end THEN Len(content) ELSE end
    IN  [i \in 1..len |-> IF i > at /\ i <= end THEN line[i - at] ELSE content[i]]

\* the worker takes the oldest record of the channel and writes it
Consume ==
    /\ worker = "running"
    /\ queue # <<>>
    /\ LET m == Head(queue)
           line == Line(m, Delivered(m, log_data[m.h], state))
       IN  /\ out' = WriteAt(out, cursor, line)
           /\ cursor' = cursor + Len(line)
           /\ written' = Append(written,
                  [m |-> m, at |-> cursor, len |-> Len(line),
                   stale |-> (state # m.st \/ log_data[m.h] # m.sel)])
    /\ queue' = Tail(queue)
    /\ UNCHANGED <<ctor, strategy, backend, log_data, pc, pending, worker, phase,
                   state, admitted, dropped, failed, ret, nextId, lastData, run,
                   prev, truncate, suspended, left>>

\* the worker's write of the oldest record fails: the backend drain is fused,
\* so the error is a panic of the worker thread, and the channel goes with it
WriteFail ==
    /\ worker = "running"
    /\ queue # <<>>
    /\ failed' = failed \cup {Head(queue).id}
    /\ queue' = Tail(queue)
    /\ worker' = "panicked"
    /\ UNCHANGED <<ctor, strategy, backend, log_data, pc, pending, phase, out, cursor,
                   state, written, admitted, dropped, ret, nextId, lastData, run,
                   prev, truncate, suspended, left>>

\* a suspended send learns that the worker is gone: the fused drain panics
BlockedPanic(h) ==
    /\ pc[h] = "blocked"
    /\ worker = "panicked"
    /\ pc' = [pc EXCEPT ![h] = "panicked"]
    /\ ret' = [ret EXCEPT ![pending[h][1].id] = "panic"]
    /\ pending' = [pending EXCEPT ![h] = <<>>]
    /\ phase' = IF Live([pc EXCEPT ![h] = "panicked"]) = {} THEN "finishing" ELSE phase
    /\ left' = IF Live([pc EXCEPT ![h] = "panicked"]) = {} THEN Len(queue) ELSE left
    /\ UNCHANGED <<ctor, strategy, backend, log_data, queue, worker, out, cursor,
                   state, written, admitted, dropped, failed, nextId, lastData, run,
                   prev, truncate, suspended>>

\* a SlogLogger value is dropped; the last one takes the drain down with it
DropHandle(h) ==
    /\ pc[h] = "idle"
    /\ phase = "open"
    /\ pc' = [pc EXCEPT ![h] = "gone"]
    /\ phase' = IF Live([pc EXCEPT ![h] = "gone"]) = {} THEN "finishing" ELSE phase
    /\ left' = IF Live([pc EXCEPT ![h] = "gone"]) = {} THEN Len(queue) ELSE left
    /\ UNCHANGED <<ctor, strategy, backend, log_data, pending, queue, worker, out,
                   cursor, state, written, admitted, dropped, failed, ret, nextId,
                   lastData, run, prev, truncate, suspended>>

\* a teardown that does not wait for the channel to empty
TeardownHasty(q) == TRUE
\* the worker leaves once it has taken everything sent before the teardown
TeardownReady(q) == q = <<>>

\* teardown: the worker ends, the drop joins it and releases the backend
WorkerExit ==
    /\ worker = "running"
    /\ phase = "finishing"
    /\ TeardownReady(queue)
    /\ worker' = "exited"
    /\ phase' = "released"
    /\ UNCHANGED <<ctor, strategy, backend, log_data, pc, pending, queue, out, cursor,
                   state, written, admitted, dropped, failed, ret, nextId, lastData,
                   run, prev, truncate, suspended, left>>

\* teardown after the worker panicked: the join fails, the drop ignores it
JoinPanicked ==
    /\ worker = "panicked"
    /\ phase = "finishing"
    /\ phase' = "released"
    /\ UNCHANGED <<ctor, strategy, backend, log_data, pc, pending, queue, worker, out,
                   cursor, state, written, admitted, dropped, failed, ret, nextId,
                   lastData, run, prev, truncate, suspended, left>>

-----------------------------------------------------------------------------
(* Specifications *)

Init == InitWith(Ctors, {FALSE})

SmallSelections == {<<>>, <<"StateData::Iter", "StateData::Iter">>}

\* one logger, its caller and its worker: the selection is set and records
\* are pushed and written in any order
Next ==
    \/ \E sel \in SmallSelections : data(1, sel)
    \/ \E msg \in Messages : observe_init(1, msg, KVOne)
    \/ \E st \in {StMid, StEnd} : observe_iter(1, st, KVOne)
    \/ Unblock(1)
    \/ Consume

Spec == Init /\ [][Next]_vars

\* the serialisers alone: one selection, then one observe_iter over every
\* enumerated selection, state and auxiliary record
NextSer ==
    \/ /\ nextId = 1
       /\ \E sel \in Selections : data(1, sel)
    \/ /\ nextId = 1
       /\ \E st \in States, kv \in KVs : observe_iter(1, st, kv)
    \/ Consume

SerSpec == InitWith({"term", "file"}, {FALSE}) /\ [][NextSer]_vars

\* a logger and its clone, two callers on one channel
NextClone ==
    \/ Clone(1, 2)
    \/ \E h \in Handles, msg \in Messages : observe_init(h, msg, KVEmpty)
    \/ \E h \in Handles : observe_iter(h, StMid, KVOne)
    \/ \E h \in Handles : Unblock(h)
    \/ Consume
    \/ \E h \in Handles : DropHandle(h)
    \/ WorkerExit

CloneSpec == Init /\ [][NextClone]_vars

\* the worker thread runs while it has a record to take, and a suspended
\* sender is woken once the channel has room
FairSpec ==
    /\ Init
    /\ [][NextClone]_vars
    /\ WF_vars(Consume)
    /\ \A h \in Handles : WF_vars(Unblock(h))

\* one logger over a backend whose writes may fail
NextFail ==
    \/ \E msg \in Messages : observe_init(1, msg, KVOne)
    \/ \E st \in {StMid, StEnd} : observe_iter(1, st, KVOne)
    \/ Unblock(1)
    \/ Consume
    \/ WriteFail
    \/ BlockedPanic(1)
    \/ DropHandle(1)
    \/ WorkerExit
    \/ JoinPanicked

FailSpec == Init /\ [][NextFail]_vars

\* logging runs made one after the other on the same target
NextFile ==
    \/ \E msg \in Messages : observe_init(1, msg, KVOne)
    \/ observe_iter(1, StMid, KVEmpty)
    \/ Unblock(1)
    \/ Consume
    \/ DropHandle(1)
    \/ WorkerExit
    \/ \E c \in {"file", "file_noblock"}, trunc \in BOOLEAN, openable \in BOOLEAN :
           Construct(c, trunc, openable)

FileSpec == InitWith({"file", "file_noblock"}, BOOLEAN) /\ [][NextFile]_vars

-----------------------------------------------------------------------------
(* Properties *)

Range(q) == {q[i] : i \in DOMAIN q}
WrittenIds == {written[i].m.id : i \in DOMAIN written}

\* every record that exists: suspended, queued or written
Records ==
    Range(queue) \cup {written[i].m : i \in DOMAIN written}
      \cup {pending[h][1] : h \in {g \in Handles : pending[g] # <<>>}}

BlockingCtors == {"term", "file"}
DroppingCtors == {"term_noblock", "file_noblock"}

\* the entries an auxiliary record stands for, pair by pair
AuxEntries(aux) ==
    [j \in 1..Len(aux) |->
        [key |-> aux[j].k, ty |-> "str", s |-> F64ToString(aux[j].v), n |-> 0]]

\* number of entries the tags before position i of sel produce
RECURSIVE Before(_, _, _)
Before(st, sel, i) ==
    IF i <= 1 THEN 0
    ELSE Before(st, sel, i - 1) + Len(SerializeData(st, sel[i - 1]))

\* C1: the record observe_iter builds is, tag by tag in the order of the
\* selection, the entries of each tag (as often as the tag occurs), followed
\* by the entries of the auxiliary record in its own order, and nothing else.
C1_SelectionThenAux ==
    \A m \in Records :
        m.kind = "iter" =>
            LET total == Before(m.st, m.sel, Len(m.sel) + 1) IN
            /\ Len(m.entries) = total + Len(m.aux)
            /\ \A i \in 1..Len(m.sel) :
                  SubSeq(m.entries, Before(m.st, m.sel, i) + 1, Before(m.st, m.sel, i + 1))
                      = SerializeData(m.st, m.sel[i])
            /\ SubSeq(m.entries, total + 1, total + Len(m.aux)) = AuxEntries(m.aux)

\* a written record whose selection names a multi-entry tag twice around
\* another tag, or one tag twice, with auxiliary entries after them
C1_Witness ==
    \E i \in DOMAIN written :
        /\ written[i].m.kind = "iter"
        /\ Len(written[i].m.sel) = 2
        /\ written[i].m.sel[1] = written[i].m.sel[2]
        /\ written[i].m.sel[1] = "StateData::FunctionCounts"
        /\ Len(written[i].m.st.func_counts) = 2
        /\ Len(written[i].m.aux) = 2

\* number of entries the tags before position i of sel stand for: one per
\* tag, and one per counted function for FunctionCounts
RECURSIVE Width(_, _, _)
Width(st, sel, i) ==
    IF i <= 1 THEN 0
    ELSE Width(st, sel, i - 1)
           + (IF sel[i - 1] = "StateData::FunctionCounts" THEN Len(st.func_counts) ELSE 1)

CountsSegment(m, i) ==
    SubSeq(m.entries, Width(m.st, m.sel, i) + 1, Width(m.st, m.sel, i + 1))

CountsAsEntries(M) ==
    [j \in 1..Len(M) |-> [key |-> M[j].name, ty |-> "u64", s |-> "", n |-> M[j].count]]

\* C8 (as amended): each occurrence of FunctionCounts in the selection emits
\* exactly one u64 entry per (name, count) pair of the mapping, keyed by the
\* pair's name, none for an empty mapping, and an entry keyed
\* "FunctionCounts" only for a pair of that very name.
C8_OneEntryPerCount ==
    \A m \in Records :
        m.kind = "iter" =>
            /\ Len(m.entries) = Width(m.st, m.sel, Len(m.sel) + 1) + Len(m.aux)
            /\ \A i \in 1..Len(m.sel) :
                  m.sel[i] = "StateData::FunctionCounts" =>
                      /\ CountsSegment(m, i) = CountsAsEntries(m.st.func_counts)
                      /\ \A j \in 1..Len(m.st.func_counts) :
                            CountsSegment(m, i)[j].key = "FunctionCounts"
                                => m.st.func_counts[j].name = "FunctionCounts"

\* C8 as stated: ... and no entry is keyed by the tag's display name
C8_NoEntryNamedAfterTag ==
    \A m \in Records :
        m.kind = "iter" =>
            \A i \in 1..Len(m.sel) :
                m.sel[i] = "StateData::FunctionCounts" =>
                    /\ CountsSegment(m, i) = CountsAsEntries(m.st.func_counts)
                    /\ \A j \in DOMAIN CountsSegment(m, i) :
                          CountsSegment(m, i)[j].key # "FunctionCounts"

\* a written record with FunctionCounts selected twice over a mapping that
\* counts a function under the tag's own name
C8_Witness ==
    \E i \in DOMAIN written :
        /\ written[i].m.sel = <<"StateData::FunctionCounts", "StateData::FunctionCounts">>
        /\ written[i].m.st = StClash
        /\ Len(written[i].m.entries) = 4 + Len(written[i].m.aux)

\* C9: a logger's selection is the argument of its latest data() call, or
\* [FunctionCounts, BestCost, Cost, Iter] when data() was never called,
\* whichever constructor built it and whatever was observed since; an empty
\* selection is taken as it is and leaves observe_iter the auxiliary entries.
C9_SelectionIsLastData ==
    /\ \A h \in Handles :
          pc[h] # "absent" =>
              log_data[h] = IF lastData[h] = <<>>
                            THEN <<"StateData::FunctionCounts", "StateData::BestCost",
                                   "StateData::Cost", "StateData::Iter">>
                            ELSE lastData[h][1]
    /\ \A m \in Records :
          (m.kind = "iter" /\ m.sel = <<>>) => m.entries = AuxEntries(m.aux)

\* data() was called with the empty selection after records were pushed with
\* the default one, and a record pushed afterwards has been written
C9_Witness ==
    /\ lastData[1] = <<<<>>>>
    /\ log_data[1] = <<>>
    /\ \E i \in DOMAIN written, j \in DOMAIN written :
          /\ i < j
          /\ written[i].m.kind = "iter"
          /\ Len(written[i].m.sel) = 4
          /\ written[j].m.kind = "iter"
          /\ written[j].m.sel = <<>>
          /\ written[j].m.entries # <<>>

\* what the call's arguments serialise to
Captured(m) ==
    IF m.kind = "iter"
    THEN LogState_serialize(m.st, m.sel) \o KV_serialize(m.aux)
    ELSE KV_serialize(m.aux)

\* C10: what is written for a record is what its call's state and selection
\* gave, whatever the state handed to later calls and whatever data() set
\* before the worker wrote it.
C10_WrittenAsCaptured ==
    \A i \in DOMAIN written :
        SubSeq(out, written[i].at + 1, written[i].at + written[i].len)
            = Line(written[i].m, Captured(written[i].m))

\* a record written after data() or a later call's state had moved on, and a
\* later record that shows the change
C10_Witness ==
    \E i \in DOMAIN written, j \in DOMAIN written :
        /\ i < j
        /\ written[i].m.kind = "iter"
        /\ written[j].m.kind = "iter"
        /\ written[i].stale
        /\ written[i].m.sel # written[j].m.sel
        /\ written[i].m.st # written[j].m.st

\* a call that starts on a full channel of a dropping logger
DropOnFull ==
    ctor \in DroppingCtors =>
        \A id \in CallIds :
            (ret[id] = "none" /\ ret'[id] # "none" /\ Len(queue) = ChanSize)
                => /\ ret'[id] = "Ok"
                   /\ queue' = queue
                   /\ id \in dropped'
                   /\ id \notin Range(admitted')

NeverSuspended ==
    ctor \in DroppingCtors =>
        /\ \A h \in Handles : pc[h] # "blocked" /\ pending[h] = <<>>
        /\ \A id \in CallIds : ret[id] \in {"none", "Ok"}
        /\ dropped \cap Range(admitted) = {}

\* C3: a logger built by term_noblock() or file_noblock() never suspends a
\* caller; a call made on a full channel returns Ok at once, its record is
\* discarded whole and the channel is left as it was.
C3_DropNeverSuspends == []NeverSuspended /\ [][DropOnFull]_vars

\* a call on a full channel of a dropping logger returned Ok and its record
\* is nowhere
C3_Witness ==
    /\ ctor \in DroppingCtors
    /\ \E id \in dropped :
          /\ ret[id] = "Ok"
          /\ \A m \in Records : m.id # id

C6_WrittenInAdmissionOrder ==
    /\ Len(written) <= Len(admitted)
    /\ \A i \in DOMAIN written : written[i].m.id = admitted[i]
    /\ \A i \in DOMAIN written, j \in DOMAIN written :
          (i < j /\ written[i].m.h = written[j].m.h) => written[i].m.id < written[j].m.id
    /\ \A i \in DOMAIN written :
          SubSeq(out, written[i].at + 1, written[i].at + written[i].len)
              = <<emit_str("msg", written[i].m.msg)>> \o written[i].m.entries \o <<NewLine>>
    /\ Len(out) = cursor

\* records of both callers written, the two callers interleaved
C6_Witness ==
    /\ Len(written) >= 3
    /\ written[1].m.h # written[2].m.h
    /\ written[2].m.h # written[3].m.h

\* a call that starts on a full channel of a blocking logger is suspended,
\* and a suspended call returns only into a channel that has room again
BlockOnFull ==
    ctor \in BlockingCtors =>
        \A id \in CallIds :
            /\ (ret[id] = "none" /\ ret'[id] # "none" /\ Len(queue) = ChanSize)
                  => ret'[id] = "pending"
            /\ (ret[id] = "pending" /\ ret'[id] # "pending")
                  => /\ ret'[id] = "Ok"
                     /\ Len(queue) < ChanSize
                     /\ Len(written) >= 1
                     /\ id \in Range(admitted')

NothingLost ==
    ctor \in BlockingCtors =>
        /\ dropped = {}
        /\ \A id \in CallIds : ret[id] = "Ok" => id \in Range(admitted)

EventuallyWritten ==
    \A id \in CallIds :
        [](ctor \in BlockingCtors /\ ret[id] \in {"pending", "Ok"} => <>(id \in WrittenIds))

AfterPanic ==
    worker = "panicked" =>
        /\ written' = written
        /\ out' = out
        /\ \A id \in CallIds : ret'[id] # ret[id] => ret'[id] = "panic"

NoErrReturned ==
    /\ \A id \in CallIds : ret[id] \in {"none", "pending", "Ok", "panic"}
    /\ \A id \in failed : ret[id] = "Ok"
    /\ failed # {} => worker = "panicked"

\* C5 (as amended): observe_init and observe_iter never return an error: the
\* call whose record the backend fails to write has returned Ok, and so has
\* every other call that returned. The failure is a panic of the worker
\* thread, after which nothing more is written and later calls panic.
C5_FailureIsNeverReturned == []NoErrReturned /\ [][AfterPanic]_vars

\* C5 as stated: the call that submitted the failing record returns an error,
\* no other call does, and the pipeline stays usable
C5_FailureIsReturned ==
    /\ \A id \in failed : ret[id] = "Err"
    /\ \A id \in CallIds \ failed : ret[id] # "Err"
    /\ failed # {} => worker = "running"

\* a write failed, its call had returned Ok, and a later call panicked
C5_Witness ==
    /\ \E id \in failed : ret[id] = "Ok"
    /\ \E id \in CallIds : ret[id] = "panic"

RECURSIVE LinesOf(_)
LinesOf(w) ==
    IF w = <<>> THEN <<>>
    ELSE Line(w[1].m, w[1].m.entries) \o LinesOf(Tail(w))

\* C4: a second run opened with file(path, false) or file_noblock(path,
\* false) leaves the first run's content intact and puts its own records
\* after it.
C4_SecondRunAppends ==
    (run = 2 /\ ctor \in {"file", "file_noblock"} /\ ~truncate)
        => out = prev \o LinesOf(written)

====
